---- MODULE Spec2Model ----
(***************************************************************************)
(* A model of the report sections of edvart: how the bivariate and         *)
(* univariate analysis sections resolve their column-selection parameters  *)
(* into concrete column lists, what they display, and which notebook cells *)
(* (call text) they export.                                                *)
(*                                                                         *)
(* Python values are modelled as follows.                                  *)
(*   - a str is the sequence of its characters, <<"a">>;                   *)
(*   - a list or tuple is a sequence;                                      *)
(*   - an Optional is None == <<>> or Some(v) == <<v>>;                    *)
(*   - a pandas column is a record [kind, values], a data frame a record   *)
(*     [columns, data];                                                    *)
(*   - source text (a cell) is a sequence of tokens; the characters of a   *)
(*     str are tokens of their own, so that quoting can go wrong.          *)
(***************************************************************************)
EXTENDS Integers, Sequences, FiniteSets, TLC

VARIABLES df, section, cells, displayed, raised, call, built

vars == <<df, section, cells, displayed, raised, call, built>>

-----------------------------------------------------------------------------
(* Python values *)

None == <<>>

Some(v) == <<v>>

IsNone(o) == Len(o) = 0

Val(o) == o[1]

Opt(S) == {None} \cup {Some(v) : v \in S}

\* All lists over S of length at most n.
Lists(S, n) == UNION {[1..k -> S] : k \in 0..n}

\* [f(e) for e in s]
RECURSIVE Count(_, _)
Count(s, e) ==
    IF s = <<>> THEN 0
    ELSE (IF Head(s) = e THEN 1 ELSE 0) + Count(Tail(s), e)

\* [(a, b) for a in xs for b in ys]
Product(xs, ys) ==
    [k \in 1..(Len(xs) * Len(ys)) |->
        <<xs[((k - 1) \div Len(ys)) + 1], ys[((k - 1) % Len(ys)) + 1]>>]

RECURSIVE Flatten(_)
Flatten(ss) == IF ss = <<>> THEN <<>> ELSE Head(ss) \o Flatten(Tail(ss))

Range(s) == {s[i] : i \in 1..Len(s)}

\* The result of a call: the exception it raised ("none" when it returned)
\* and what it displayed before that.
Returned(out) == [raised |-> "none", displayed |-> out]

Raise(exc, out) == [raised |-> exc, displayed |-> out]

\* r1 followed by the statements r2, which run only when r1 returned.
Then(r1, r2) ==
    IF r1.raised # "none" THEN r1
    ELSE [raised |-> r2.raised, displayed |-> r1.displayed \o r2.displayed]

-----------------------------------------------------------------------------
(* Bounds and input sets *)

\* Longest list of column names passed as columns, columns_x or columns_y.
MaxLen == 2

\* Longest list passed as columns_pairs.
MaxPairs == 2

\* Column names.  NameB holds a quote character.
NameA == <<"a">>

NameB == <<"b", "'">>

\* A missing value of a column (NaN, None, NaT).
NULL == "NaN"

\* Semantic types of a column.
Kinds == {"numeric", "categorical", "boolean", "datetime"}

\* Column contents by the number of unique values: none (only nulls), one
\* (beside a null), two.
ValueChoices == {<<NULL, NULL>>, <<"u", NULL>>, <<"u", "v">>}

Column(kind, values) == [kind |-> kind, values |-> values]

\* A data frame: the column names in order, and each column's data.
Frames(names, kinds, valueChoices) ==
    {[columns |-> names, data |-> d] :
        d \in [Range(names) -> {Column(k, v) : k \in kinds, v \in valueChoices}]}

-----------------------------------------------------------------------------
(* pandas and edvart.data_types *)

\* Series.nunique(): the number of distinct values, nulls not counted.
nunique(series) == Cardinality(Range(series.values) \ {NULL})

\* Series.isnull().all()
isnull_all(series) == \A i \in 1..Len(series.values) : series.values[i] = NULL

is_numeric(series) == series.kind = "numeric"

is_categorical(series) == series.kind = "categorical"

is_boolean(series) == series.kind = "boolean"

\* What display(...) shows: one record per displayed object.
Item(kind, title, x, y, color) ==
    [kind |-> kind, title |-> title, x |-> x, y |-> y, color |-> color]

Markdown(title, cols) == Item("Markdown", title, cols, <<>>, None)

XorNone(columns_x, columns_y) == IsNone(columns_x) # IsNone(columns_y)

-----------------------------------------------------------------------------
(* CorrelationPlot: static functions *)

\* _get_columns_x_y without the filter of columns_y.
_get_columns_x_y_unfiltered_y(frame, columns, columns_x, columns_y) ==
    IF XorNone(columns_x, columns_y)
    THEN [raised |-> "ValueError", columns_x |-> <<>>, columns_y |-> <<>>]
    ELSE LET cols == IF IsNone(columns) THEN frame.columns ELSE Val(columns)
             cx == IF IsNone(columns_x) THEN cols ELSE Val(columns_x)
             cy == IF IsNone(columns_x) THEN cols ELSE Val(columns_y)
         IN  [raised |-> "none",
              columns_x |-> SelectSeq(cx, LAMBDA col : is_numeric(frame.data[col])),
              columns_y |-> cy]

\* Resolves columns, columns_x, columns_y against df; returns the exception
\* raised and the two resolved lists.
_get_columns_x_y(frame, columns, columns_x, columns_y) ==
    IF XorNone(columns_x, columns_y)
    THEN [raised |-> "ValueError", columns_x |-> <<>>, columns_y |-> <<>>]
    ELSE LET cols == IF IsNone(columns) THEN frame.columns ELSE Val(columns)
             cx == IF IsNone(columns_x) THEN cols ELSE Val(columns_x)
             cy == IF IsNone(columns_x) THEN cols ELSE Val(columns_y)
         IN  [raised |-> "none",
              columns_x |-> SelectSeq(cx, LAMBDA col : is_numeric(frame.data[col])),
              columns_y |-> SelectSeq(cy, LAMBDA col : is_numeric(frame.data[col]))]

\* The names of the correlations, in the order of the dictionary.
default_correlations == <<"pearson", "spearman", "kendall">>

plot_correlation(frame, corr_name, columns, columns_x, columns_y) ==
    LET r == _get_columns_x_y(frame, columns, columns_x, columns_y)
    IN  IF r.raised # "none" THEN Raise(r.raised, <<>>)
        ELSE Returned(<<Markdown(corr_name, <<>>),
                        Item("heatmap", corr_name, r.columns_x, r.columns_y, None)>>)

RECURSIVE plot_each_correlation(_, _, _, _, _)
plot_each_correlation(frame, correlations, columns, columns_x, columns_y) ==
    IF correlations = <<>> THEN Returned(<<>>)
    ELSE Then(plot_correlation(frame, Head(correlations), columns, columns_x, columns_y),
              plot_each_correlation(frame, Tail(correlations), columns, columns_x, columns_y))

plot_correlations(frame, columns, columns_x, columns_y, pearson, spearman, kendall) ==
    LET wanted(name) == \/ name = "pearson" /\ pearson
                        \/ name = "spearman" /\ spearman
                        \/ name = "kendall" /\ kendall
    IN  plot_each_correlation(frame, SelectSeq(default_correlations, wanted),
                              columns, columns_x, columns_y)

-----------------------------------------------------------------------------
(* PairPlot: static functions *)

\* utils.pair_plot: seaborn's pairplot of columns_x against columns_y.
pair_plot(frame, columns_x, columns_y, color_col) ==
    Item("pair_plot", "", columns_x, columns_y, color_col)

\* include_column of plot_pairplot without the test for a boolean column.
pairplot_include_column_boolean(frame, col) == ~is_categorical(frame.data[col])

\* include_column of plot_pairplot.
pairplot_include_column(frame, col) ==
    ~is_categorical(frame.data[col]) /\ ~is_boolean(frame.data[col])

plot_pairplot(frame, columns, columns_x, columns_y, allow_categorical, color_col) ==
    IF XorNone(columns_x, columns_y) THEN Raise("ValueError", <<>>)
    ELSE LET include(col) == pairplot_include_column(frame, col)
             cols == IF IsNone(columns) THEN SelectSeq(frame.columns, include)
                     ELSE Val(columns)
             cx == IF IsNone(columns_x) THEN cols ELSE Val(columns_x)
             cy == IF IsNone(columns_x) THEN cols ELSE Val(columns_y)
             fx == IF ~allow_categorical THEN SelectSeq(cx, include) ELSE cx
             fy == IF ~allow_categorical THEN SelectSeq(cy, include) ELSE cy
         IN  Returned(<<pair_plot(frame, fx, fy, color_col)>>)

-----------------------------------------------------------------------------
(* ContingencyTable: static functions *)

contingency_table(frame, columns1, columns2) ==
    Item("contingency_table", "", <<columns1>>, <<columns2>>, None)

\* include_column without the test for a column of nulls.
include_column_with_nulls(frame, table_threshold, col) ==
    table_threshold < 0 \/ nunique(frame.data[col]) <= table_threshold

include_column(frame, table_threshold, col) ==
    /\ table_threshold < 0 \/ nunique(frame.data[col]) <= table_threshold
    /\ ~isnull_all(frame.data[col])

\* include_column_pair without the test for a pair of one column.
include_column_pair_of_one(frame, table_threshold, col_pair) ==
    /\ include_column(frame, table_threshold, col_pair[1])
    /\ include_column(frame, table_threshold, col_pair[2])

include_column_pair(frame, table_threshold, col_pair) ==
    IF col_pair[1] = col_pair[2] THEN FALSE
    ELSE /\ include_column(frame, table_threshold, col_pair[1])
         /\ include_column(frame, table_threshold, col_pair[2])

\* contingency_tables with columns_pairs used only when columns_x is None.
contingency_tables_x_y_first(frame, columns, columns_x, columns_y, columns_pairs, table_threshold) ==
    IF XorNone(columns_x, columns_y) THEN Raise("ValueError", <<>>)
    ELSE LET cols == IF IsNone(columns)
                     THEN SelectSeq(frame.columns, LAMBDA col : nunique(frame.data[col]) > 1)
                     ELSE Val(columns)
             pairs == IF ~IsNone(columns_x) THEN Product(Val(columns_x), Val(columns_y))
                      ELSE IF ~IsNone(columns_pairs) THEN Val(columns_pairs)
                      ELSE Product(cols, cols)
             kept == SelectSeq(pairs, LAMBDA p : include_column_pair(frame, table_threshold, p))
         IN  Returned([i \in 1..Len(kept) |-> contingency_table(frame, kept[i][1], kept[i][2])])

contingency_tables(frame, columns, columns_x, columns_y, columns_pairs, table_threshold) ==
    IF XorNone(columns_x, columns_y) THEN Raise("ValueError", <<>>)
    ELSE LET cols == IF IsNone(columns)
                     THEN SelectSeq(frame.columns, LAMBDA col : nunique(frame.data[col]) > 1)
                     ELSE Val(columns)
             cx == IF IsNone(columns_x) THEN cols ELSE Val(columns_x)
             cy == IF IsNone(columns_x) THEN cols ELSE Val(columns_y)
             pairs == IF IsNone(columns_pairs) THEN Product(cx, cy) ELSE Val(columns_pairs)
             kept == SelectSeq(pairs, LAMBDA p : include_column_pair(frame, table_threshold, p))
         IN  Returned([i \in 1..Len(kept) |-> contingency_table(frame, kept[i][1], kept[i][2])])

\* The default of table_threshold.
DefaultTableThreshold == 30

-----------------------------------------------------------------------------
(* Source text: what Python's formatting writes and what its parser reads *)

SQ == "'"

DQ == "\""

\* sep.join(parts)
RECURSIVE Join(_, _)
Join(parts, sep) ==
    IF parts = <<>> THEN <<>>
    ELSE IF Len(parts) = 1 THEN Head(parts)
    ELSE Head(parts) \o sep \o Join(Tail(parts), sep)

\* repr of a str: in single quotes, or in double quotes when the str holds a
\* single quote (the names here hold no double quote and no backslash).
repr_str(s) == IF SQ \in Range(s) THEN <<DQ>> \o s \o <<DQ>> ELSE <<SQ>> \o s \o <<SQ>>

\* repr of a list of str: f"{columns}"
repr_str_list(l) == <<"[">> \o Join([i \in 1..Len(l) |-> repr_str(l[i])], <<",">>) \o <<"]">>

\* f"{columns}" of an Optional list of str
repr_opt_str_list(o) == IF IsNone(o) THEN <<"None">> ELSE repr_str_list(Val(o))

\* repr of a tuple of two str
repr_pair(pr) == <<"(">> \o repr_str(pr[1]) \o <<",">> \o repr_str(pr[2]) \o <<")">>

\* repr of a list of pairs: f"{columns_pairs}"
repr_pair_list(l) == <<"[">> \o Join([i \in 1..Len(l) |-> repr_pair(l[i])], <<",">>) \o <<"]">>

\* f"'{s}'": the str between single quotes, as it is.
quoted(s) == <<SQ>> \o s \o <<SQ>>

\* text.replace(old, ""), old one token
remove_token(text, old) == SelectSeq(text, LAMBDA t : t # old)

\* The members of BivariateAnalysisSubsection, in the order of their values.
BivariateAnalysisSubsection == <<"CorrelationPlot", "PairPlot", "ContingencyTable">>

\* f"BivariateAnalysis.BivariateAnalysisSubsection.{str(sub)}", one token.
SubsectionToken(sub) ==
    CASE sub = "CorrelationPlot" -> "BivariateAnalysis.BivariateAnalysisSubsection.CorrelationPlot"
      [] sub = "PairPlot" -> "BivariateAnalysis.BivariateAnalysisSubsection.PairPlot"
      [] sub = "ContingencyTable" -> "BivariateAnalysis.BivariateAnalysisSubsection.ContingencyTable"

SubsectionTokens == {SubsectionToken(sub) : sub \in Range(BivariateAnalysisSubsection)}

\* The member an attribute reference evaluates to.
SubsectionOfToken(tok) ==
    CHOOSE sub \in Range(BivariateAnalysisSubsection) : SubsectionToken(sub) = tok

\* The keyword parameters the emitted calls use.
KwNames == {"subsections", "columns", "columns_x", "columns_y", "columns_pairs", "color_col"}

NoKwargs == [k \in KwNames |-> None]

ParseFailed == [ok |-> FALSE, val |-> <<>>, next |-> 0]

\* The place of the quote that closes the string literal opened at i, 0 if none.
ClosingQuote(text, i) ==
    LET closing == {j \in (i + 1)..Len(text) : text[j] = text[i]}
    IN  IF closing = {} THEN 0 ELSE CHOOSE j \in closing : \A k \in closing : j <= k

\* Python's reading of an expression that starts at text[i]: a string literal, a
\* list or tuple display, or a reference to a member of the enum.
RECURSIVE ParseValue(_, _), ParseItems(_, _, _, _)
ParseValue(text, i) ==
    IF i > Len(text) THEN ParseFailed
    ELSE IF text[i] \in {SQ, DQ}
    THEN LET j == ClosingQuote(text, i)
         IN  IF j = 0 THEN ParseFailed
             ELSE [ok |-> TRUE, val |-> SubSeq(text, i + 1, j - 1), next |-> j + 1]
    ELSE IF text[i] = "[" THEN ParseItems(text, i + 1, "]", <<>>)
    ELSE IF text[i] = "(" THEN ParseItems(text, i + 1, ")", <<>>)
    ELSE IF text[i] \in SubsectionTokens
    THEN [ok |-> TRUE, val |-> SubsectionOfToken(text[i]), next |-> i + 1]
    ELSE ParseFailed

ParseItems(text, i, close, acc) ==
    IF i > Len(text) THEN ParseFailed
    ELSE IF text[i] = close THEN [ok |-> TRUE, val |-> acc, next |-> i + 1]
    ELSE LET v == ParseValue(text, i)
         IN  IF ~v.ok \/ v.next > Len(text) THEN ParseFailed
             ELSE IF text[v.next] = ","
             THEN ParseItems(text, v.next + 1, close, Append(acc, v.val))
             ELSE IF text[v.next] = close
             THEN [ok |-> TRUE, val |-> Append(acc, v.val), next |-> v.next + 1]
             ELSE ParseFailed

\* The keyword arguments from text[i] to the parenthesis that closes the call,
\* which must end the text.
RECURSIVE ParseKwargs(_, _, _)
ParseKwargs(text, i, acc) ==
    IF i > Len(text) THEN [ok |-> FALSE, kwargs |-> acc]
    ELSE IF text[i] = ")" THEN [ok |-> i = Len(text), kwargs |-> acc]
    ELSE IF text[i] = "," /\ i + 2 <= Len(text) /\ text[i + 1] \in KwNames /\ text[i + 2] = "="
    THEN IF i + 3 <= Len(text) /\ text[i + 3] = "None"
         THEN ParseKwargs(text, i + 4, [acc EXCEPT ![text[i + 1]] = None])
         ELSE LET v == ParseValue(text, i + 3)
              IN  IF ~v.ok THEN [ok |-> FALSE, kwargs |-> acc]
                  ELSE ParseKwargs(text, v.next, [acc EXCEPT ![text[i + 1]] = Some(v.val)])
    ELSE [ok |-> FALSE, kwargs |-> acc]

\* Python's reading of a statement name(df=df, keyword=value, ...): not ok is a
\* SyntaxError.
ParseCall(text) ==
    IF Len(text) >= 4 /\ text[2] = "(" /\ text[3] = "df=df"
    THEN LET k == ParseKwargs(text, 4, NoKwargs)
         IN  [ok |-> k.ok, func |-> text[1], kwargs |-> k.kwargs]
    ELSE [ok |-> FALSE, func |-> "", kwargs |-> NoKwargs]

-----------------------------------------------------------------------------
(* Section objects *)

\* Section.__init__: every section keeps its verbosity and its columns.  The
\* fields of the subclasses are None until their constructor sets them.
Section(cls, verbosity, columns) ==
    [cls |-> cls, verbosity |-> verbosity, columns |-> columns,
     columns_x |-> None, columns_y |-> None, columns_pairs |-> None,
     color_col |-> None, subsections_0 |-> None, subsections |-> <<>>, df |-> None]

\* No object.
NoSection == Section("none", 0, None)

Constructed(obj) == [raised |-> "none", obj |-> obj]

ConstructorRaised(exc) == [raised |-> exc, obj |-> NoSection]

\* The name property of the sections.
name(self) ==
    CASE self.cls = "BivariateAnalysis" -> "Bivariate analysis"
      [] self.cls = "CorrelationPlot" -> "Correlation Plot"
      [] self.cls = "PairPlot" -> "Pairplot"
      [] self.cls = "ContingencyTable" -> "Contingency table"
      [] self.cls = "UnivariateAnalysis" -> "Univariate Analysis"
      [] self.cls = "UMAP" -> "UMAP"
      [] self.cls = "Autocorrelation" -> "Autocorrelation"

\* Section.get_title: a markdown heading of the given level.
get_title(self, section_level) ==
    <<IF section_level = 1 THEN "#" ELSE "##", name(self)>>

new_markdown_cell(source) == [cell_type |-> "markdown", source |-> source]

new_code_cell(source) == [cell_type |-> "code", source |-> source]

\* get_code(f): the source text of f, one token.
get_code(f) == <<"def", f>>

-----------------------------------------------------------------------------
(* CorrelationPlot *)

CorrelationPlot(verbosity, columns, columns_x, columns_y) ==
    IF XorNone(columns_x, columns_y) THEN ConstructorRaised("ValueError")
    ELSE Constructed([Section("CorrelationPlot", verbosity, columns) EXCEPT
                        !.columns_x = columns_x, !.columns_y = columns_y])

CorrelationPlot_default_call(self) ==
    <<"plot_correlations", "(", "df=df">>
    \o (IF ~IsNone(self.columns_x)
        THEN <<",", "columns_x", "=">> \o repr_str_list(Val(self.columns_x))
             \o <<",", "columns_y", "=">> \o repr_opt_str_list(self.columns_y)
        ELSE IF ~IsNone(self.columns)
        THEN <<",", "columns", "=">> \o repr_str_list(Val(self.columns))
        ELSE <<>>)
    \o <<")">>

CorrelationPlot_add_cells(self, cells0) ==
    LET section_header == new_markdown_cell(get_title(self, 2))
        default_call == CorrelationPlot_default_call(self)
        code == IF self.verbosity <= 1 THEN default_call
                ELSE get_code("default_correlations") \o <<"\n\n">>
                     \o get_code("_get_columns_x_y") \o <<"\n\n">>
                     \o get_code("plot_correlation") \o <<"\n\n">>
                     \o get_code("plot_correlations") \o <<"\n\n">>
                     \o default_call
    IN  cells0 \o <<section_header, new_code_cell(code)>>

CorrelationPlot_show(self, frame) ==
    Then(Returned(<<Markdown(name(self), <<>>)>>),
         plot_correlations(frame, self.columns, self.columns_x, self.columns_y,
                           TRUE, TRUE, TRUE))

-----------------------------------------------------------------------------
(* PairPlot *)

\* The constructor without its check of columns_x and columns_y.
PairPlot_unchecked(verbosity, columns, columns_x, columns_y, color_col) ==
    Constructed([Section("PairPlot", verbosity, columns) EXCEPT
                    !.columns_x = columns_x, !.columns_y = columns_y,
                    !.color_col = color_col])

PairPlot(verbosity, columns, columns_x, columns_y, color_col) ==
    IF XorNone(columns_x, columns_y) THEN ConstructorRaised("ValueError")
    ELSE Constructed([Section("PairPlot", verbosity, columns) EXCEPT
                        !.columns_x = columns_x, !.columns_y = columns_y,
                        !.color_col = color_col])

PairPlot_default_call(self) ==
    <<"plot_pairplot", "(", "df=df">>
    \o (IF ~IsNone(self.columns_x)
        THEN <<",", "columns_x", "=">> \o repr_str_list(Val(self.columns_x))
             \o <<",", "columns_y", "=">> \o repr_opt_str_list(self.columns_y)
        ELSE IF ~IsNone(self.columns)
        THEN <<",", "columns", "=">> \o repr_str_list(Val(self.columns)) \o <<")">>
        ELSE <<>>)
    \o (IF ~IsNone(self.color_col)
        THEN <<",", "color_col", "=">> \o quoted(Val(self.color_col))
        ELSE <<>>)
    \o <<")">>

PairPlot_add_cells(self, cells0) ==
    LET section_header == new_markdown_cell(get_title(self, 2))
        default_call == PairPlot_default_call(self)
        code == IF self.verbosity <= 1 THEN default_call
                ELSE get_code("plot_pairplot") \o <<"\n\n">> \o default_call
    IN  cells0 \o <<section_header, new_code_cell(code)>>

PairPlot_show(self, frame) ==
    Then(Returned(<<Markdown(name(self), <<>>)>>),
         plot_pairplot(frame, self.columns, self.columns_x, self.columns_y,
                       FALSE, self.color_col))

-----------------------------------------------------------------------------
(* ContingencyTable *)

ContingencyTable(verbosity, columns, columns_x, columns_y, columns_pairs) ==
    Constructed([Section("ContingencyTable", verbosity, columns) EXCEPT
                    !.columns_x = columns_x, !.columns_y = columns_y,
                    !.columns_pairs = columns_pairs])

ContingencyTable_default_call(self) ==
    <<"contingency_tables", "(", "df=df">>
    \o (IF ~IsNone(self.columns_pairs)
        THEN <<",", "columns_pairs", "=">> \o repr_pair_list(Val(self.columns_pairs))
        ELSE IF ~IsNone(self.columns_x)
        THEN <<",", "columns_x", "=">> \o repr_str_list(Val(self.columns_x))
             \o <<",", "columns_y", "=">> \o repr_opt_str_list(self.columns_y)
        ELSE IF ~IsNone(self.columns)
        THEN <<",", "columns", "=">> \o repr_str_list(Val(self.columns))
        ELSE <<>>)
    \o <<")">>

ContingencyTable_add_cells(self, cells0) ==
    LET section_header == new_markdown_cell(get_title(self, 2))
        default_call == ContingencyTable_default_call(self)
        code == IF self.verbosity <= 1 THEN default_call
                ELSE get_code("contingency_tables") \o <<"\n\n">>
                     \o get_code("contingency_table") \o <<"\n\n">>
                     \o default_call
    IN  cells0 \o <<section_header, new_code_cell(code)>>

ContingencyTable_show(self, frame) ==
    Then(Returned(<<Markdown(name(self), <<>>)>>),
         contingency_tables(frame, self.columns, self.columns_x, self.columns_y,
                            self.columns_pairs, DefaultTableThreshold))

\* required_imports: the import strings, each a text of one or more lines.
ContingencyTable_required_imports(self) ==
    IF self.verbosity <= 1
    THEN <<<<"from", "edvart.report_sections.bivariate_analysis", "import", "ContingencyTable",
             "\n",
             "contingency_tables", "=", "ContingencyTable.contingency_tables">>>>
    ELSE <<<<"import", "itertools">>,
           <<"from", "edvart", "import", "utils">>,
           <<"import", "seaborn", "as", "sns">>,
           <<"import", "matplotlib.pyplot", "as", "plt">>>>

\* The module aliases the source of a function of ContingencyTable refers to:
\* pd in the annotation of df of both, and in contingency_table pd.crosstab,
\* the default np.cbrt, sns.heatmap and plt.show.
module_aliases(f) ==
    CASE f = "contingency_tables" -> {"pd"}
      [] f = "contingency_table" -> {"pd", "np", "sns", "plt"}
      [] OTHER -> {}

-----------------------------------------------------------------------------
(* ReportSection and BivariateAnalysis *)

\* sub.add_cells(cells), by the class of sub.
sub_add_cells(sub, cells0) ==
    CASE sub.cls = "CorrelationPlot" -> CorrelationPlot_add_cells(sub, cells0)
      [] sub.cls = "PairPlot" -> PairPlot_add_cells(sub, cells0)
      [] sub.cls = "ContingencyTable" -> ContingencyTable_add_cells(sub, cells0)

\* sub.show(df), by the class of sub.
sub_show(sub, frame) ==
    CASE sub.cls = "CorrelationPlot" -> CorrelationPlot_show(sub, frame)
      [] sub.cls = "PairPlot" -> PairPlot_show(sub, frame)
      [] sub.cls = "ContingencyTable" -> ContingencyTable_show(sub, frame)

\* for sub in subsections: sub.show(df)
RECURSIVE show_subsections(_, _)
show_subsections(subsections, frame) ==
    IF subsections = <<>> THEN Returned(<<>>)
    ELSE Then(sub_show(Head(subsections), frame),
              show_subsections(Tail(subsections), frame))

\* for sub in subsections: sub.add_cells(cells), for the subsections of at
\* least the given verbosity.
RECURSIVE add_cells_of_subsections(_, _, _)
add_cells_of_subsections(subsections, min_verbosity, cells0) ==
    IF subsections = <<>> THEN cells0
    ELSE add_cells_of_subsections(
            Tail(subsections), min_verbosity,
            IF Head(subsections).verbosity >= min_verbosity
            THEN sub_add_cells(Head(subsections), cells0) ELSE cells0)

\* ReportSection.add_cells
ReportSection_add_cells(self, cells0) == add_cells_of_subsections(self.subsections, 0, cells0)

\* ReportSection.show
ReportSection_show(self, frame) == show_subsections(self.subsections, frame)

\* columns_pairs taken for columns_x and columns_y even when columns is given.
columns_no_pairs_despite_columns(columns, columns_x, columns_y, columns_pairs) ==
    IF IsNone(columns_x) /\ ~IsNone(columns_pairs)
    THEN <<Some([i \in 1..Len(Val(columns_pairs)) |-> Val(columns_pairs)[i][1]]),
           Some([i \in 1..Len(Val(columns_pairs)) |-> Val(columns_pairs)[i][2]])>>
    ELSE <<columns_x, columns_y>>

\* columns_x_no_pairs and columns_y_no_pairs of the constructor: the columns_x
\* and columns_y of the analyses that take no columns_pairs.
columns_no_pairs(columns, columns_x, columns_y, columns_pairs) ==
    IF IsNone(columns) /\ IsNone(columns_x) /\ ~IsNone(columns_pairs)
    THEN <<Some([i \in 1..Len(Val(columns_pairs)) |-> Val(columns_pairs)[i][1]]),
           Some([i \in 1..Len(Val(columns_pairs)) |-> Val(columns_pairs)[i][2]])>>
    ELSE <<columns_x, columns_y>>

\* The verbosity of a subsection with a given verbosity of 0 taken for None.
subsection_verbosity_or(verbosity_subsection, verbosity) ==
    IF ~IsNone(verbosity_subsection) /\ Val(verbosity_subsection) # 0
    THEN Val(verbosity_subsection) ELSE verbosity

\* verbosity_x = verbosity_x if verbosity_x is not None else verbosity
subsection_verbosity(verbosity_subsection, verbosity) ==
    IF ~IsNone(verbosity_subsection) THEN Val(verbosity_subsection) ELSE verbosity

\* The constructor: the exception raised, the object, and the subsection
\* objects it built on the way, in the order it built them.
BivariateAnalysis(subsections, verbosity, columns, columns_x, columns_y, columns_pairs, verbosity_correlations, verbosity_pairplot, verbosity_contingency_table, color_col) ==
    LET v_correlations == subsection_verbosity(verbosity_correlations, verbosity)
        v_pairplot == subsection_verbosity(verbosity_pairplot, verbosity)
        v_contingency_table == subsection_verbosity(verbosity_contingency_table, verbosity)
        verbosities(sub) == CASE sub = "CorrelationPlot" -> v_correlations
                              [] sub = "PairPlot" -> v_pairplot
                              [] sub = "ContingencyTable" -> v_contingency_table
        subsections_all == IF IsNone(subsections) THEN BivariateAnalysisSubsection
                           ELSE Val(subsections)
        with_0 == SelectSeq(subsections_all, LAMBDA sub : verbosities(sub) = 0)
        subsections_0 == IF Len(with_0) = Len(subsections_all) /\ IsNone(subsections)
                         THEN None ELSE Some(with_0)
        no_pairs == columns_no_pairs(columns, columns_x, columns_y, columns_pairs)
        columns_x_no_pairs == no_pairs[1]
        columns_y_no_pairs == no_pairs[2]
        correlation_plot == CorrelationPlot(v_correlations, columns,
                                            columns_x_no_pairs, columns_y_no_pairs)
        pair_plot_section == PairPlot(v_pairplot, columns, columns_x_no_pairs,
                                      columns_y_no_pairs, color_col)
        contingency == ContingencyTable(v_contingency_table, columns, columns_x, columns_y,
                                        columns_pairs)
        enum_to_implementation(sub) == CASE sub = "CorrelationPlot" -> correlation_plot.obj
                                         [] sub = "PairPlot" -> pair_plot_section.obj
                                         [] sub = "ContingencyTable" -> contingency.obj
        subsections_implementations ==
            [i \in 1..Len(subsections_all) |-> enum_to_implementation(subsections_all[i])]
    IN  IF XorNone(columns_x, columns_y)
        THEN [raised |-> "ValueError", obj |-> NoSection, built |-> <<>>]
        ELSE IF correlation_plot.raised # "none"
        THEN [raised |-> correlation_plot.raised, obj |-> NoSection, built |-> <<>>]
        ELSE IF pair_plot_section.raised # "none"
        THEN [raised |-> pair_plot_section.raised, obj |-> NoSection,
              built |-> <<correlation_plot.obj>>]
        ELSE [raised |-> "none",
              obj |-> [Section("BivariateAnalysis", verbosity, columns) EXCEPT
                         !.subsections = subsections_implementations,
                         !.subsections_0 = subsections_0,
                         !.columns_x = columns_x, !.columns_y = columns_y,
                         !.columns_pairs = columns_pairs, !.color_col = color_col],
              built |-> <<correlation_plot.obj, pair_plot_section.obj, contingency.obj>>]

\* The call text of add_cells at verbosity 0.
BivariateAnalysis_code(self) ==
    <<"bivariate_analysis", "(", "df=df">>
    \o (IF ~IsNone(self.subsections_0)
        THEN LET arg_subsections_names ==
                     [i \in 1..Len(Val(self.subsections_0)) |->
                         <<SubsectionToken(Val(self.subsections_0)[i])>>]
             IN  remove_token(<<",", "subsections", "=">>
                              \o repr_str_list(arg_subsections_names), SQ)
        ELSE <<>>)
    \o (IF ~IsNone(self.columns_x)
        THEN <<",", "columns_x", "=">> \o repr_str_list(Val(self.columns_x))
             \o <<",", "columns_y", "=">> \o repr_opt_str_list(self.columns_y)
        ELSE IF ~IsNone(self.columns)
        THEN <<",", "columns", "=">> \o repr_str_list(Val(self.columns))
        ELSE <<>>)
    \o (IF ~IsNone(self.columns_pairs)
        THEN <<",", "columns_pairs", "=">> \o repr_pair_list(Val(self.columns_pairs))
        ELSE <<>>)
    \o (IF ~IsNone(self.color_col)
        THEN <<",", "color_col", "=">> \o quoted(Val(self.color_col))
        ELSE <<>>)
    \o <<")">>

BivariateAnalysis_add_cells(self, cells0) ==
    LET section_header == new_markdown_cell(get_title(self, 1))
        with_header == Append(cells0, section_header)
    IN  IF self.verbosity = 0
        THEN add_cells_of_subsections(
                self.subsections, 1,
                Append(with_header, new_code_cell(BivariateAnalysis_code(self))))
        ELSE ReportSection_add_cells(self, with_header)

BivariateAnalysis_show(self, frame) ==
    Then(Returned(<<Markdown(name(self), <<>>)>>), ReportSection_show(self, frame))

\* The static method bivariate_analysis.
bivariate_analysis(frame, subsections, columns, columns_x, columns_y, columns_pairs, color_col) ==
    LET made == BivariateAnalysis(subsections, 0, columns, columns_x, columns_y,
                                  columns_pairs, None, None, None, color_col)
    IN  IF made.raised # "none" THEN Raise(made.raised, <<>>)
        ELSE show_subsections(made.obj.subsections, frame)

-----------------------------------------------------------------------------
(* UnivariateAnalysis *)

\* df[columns]: the frame of the listed columns, in the order of the list; a
\* name listed twice is a column twice.
select_columns(frame, columns) == [columns |-> columns, data |-> frame.data]

\* df[col].isnull().all() in a condition: with col twice among the columns,
\* df[col] is a frame, all() a Series, and its truth value a ValueError.
ambiguous_truth(frame, col) == Count(frame.columns, col) > 1

\* infer_data_type(series), as a DataType and as its string.
infer_data_type(series) == series.kind

UnivariateAnalysis(frame, verbosity, columns) ==
    Constructed([Section("UnivariateAnalysis", verbosity, columns) EXCEPT !.df = Some(frame)])

\* f"df['{col}']"
df_col(col) == <<"df", "[">> \o quoted(col) \o <<"]">>

\* The code cell of one column, with the statistics of a number only for a
\* column inferred numeric.
column_code_numeric_only(data_type, verbosity, col) ==
    IF data_type # "numeric"
    THEN <<"top_most_frequent", "(">> \o df_col(col) \o <<")", "\n">>
         \o <<"bar_plot", "(">> \o df_col(col) \o <<")">>
    ELSE <<"numeric_statistics", "(">> \o df_col(col) \o <<")", "\n">>
         \o <<"histogram", "(">> \o df_col(col) \o <<")">>

\* The code cell of one column.
column_code(data_type, verbosity, col) ==
    IF data_type \in {"categorical", "boolean"}
    THEN <<"top_most_frequent", "(">> \o df_col(col) \o <<")", "\n">>
         \o <<"bar_plot", "(">> \o df_col(col) \o <<")">>
    ELSE IF verbosity = 1
    THEN <<"numeric_statistics", "(">> \o df_col(col) \o <<")", "\n">>
         \o <<"histogram", "(">> \o df_col(col) \o <<")">>
    ELSE <<"numeric_statistics", "(">> \o df_col(col)
         \o <<",", "descriptive_stats", "=", "default_descriptive_statistics", "(", ")">>
         \o <<",", "quantile_stats", "=", "default_quantile_statistics", "(", ")", ")", "\n">>
         \o <<"histogram", "(">> \o df_col(col) \o <<")">>

\* The two messages about a column of nulls.
null_messages(col) ==
    <<Markdown("NULL", <<col>>), Markdown("The column contains only null values.", <<>>)>>

\* The loop of add_cells over the columns left, cells0 and out being the
\* cells and the output so far.
RECURSIVE add_column_cells(_, _, _, _, _)
add_column_cells(frame, columns, verbosity, cells0, out) ==
    IF columns = <<>> THEN [raised |-> "none", cells |-> cells0, displayed |-> out]
    ELSE LET col == Head(columns)
         IN  IF ambiguous_truth(frame, col)
             THEN [raised |-> "ValueError", cells |-> cells0, displayed |-> out]
             ELSE IF isnull_all(frame.data[col])
             THEN add_column_cells(frame, Tail(columns), verbosity, cells0,
                                   out \o null_messages(col))
             ELSE LET data_type == infer_data_type(frame.data[col])
                      column_header ==
                          new_markdown_cell(<<"##">> \o col \o <<"-", data_type>>)
                      code_cell == new_code_cell(column_code(data_type, verbosity, col))
                  IN  add_column_cells(frame, Tail(columns), verbosity,
                                       cells0 \o <<column_header, code_cell>>, out)

\* add_cells: the exception raised, the cells, the output displayed and the
\* object, whose df add_cells narrows to its columns.
UnivariateAnalysis_add_cells(self, cells0) ==
    LET frame == IF ~IsNone(self.columns)
                 THEN select_columns(Val(self.df), Val(self.columns)) ELSE Val(self.df)
        section_header == new_markdown_cell(get_title(self, 1))
        definitions ==
            IF self.verbosity = 2
            THEN <<new_code_cell(get_code("default_descriptive_statistics") \o <<"\n\n">>
                                 \o get_code("default_quantile_statistics")),
                   new_code_cell(get_code("top_most_frequent") \o <<"\n\n">>
                                 \o get_code("bar_plot") \o <<"\n\n">>
                                 \o get_code("numeric_statistics") \o <<"\n\n">>
                                 \o get_code("histogram")),
                   new_code_cell(get_code("format_number") \o <<"\n\n">>
                                 \o get_code("dict_to_html") \o <<"\n\n">>
                                 \o get_code("add_html_heading") \o <<"\n\n">>
                                 \o get_code("subcells_html"))>>
            ELSE <<>>
        before == Append(cells0, section_header) \o definitions
        code == IF IsNone(self.columns) THEN <<"univariate_analysis", "(", "df=df", ")">>
                ELSE <<"univariate_analysis", "(", "df=df", ",", "columns", "=">>
                     \o repr_str_list(Val(self.columns)) \o <<")">>
        r == IF self.verbosity = 0
             THEN [raised |-> "none", cells |-> Append(before, new_code_cell(code)),
                   displayed |-> <<>>]
             ELSE add_column_cells(frame, frame.columns, self.verbosity, before, <<>>)
    IN  [raised |-> r.raised, cells |-> r.cells, displayed |-> r.displayed,
         self |-> [self EXCEPT !.df = Some(frame)]]

\* The loop of show and of univariate_analysis over the columns left; show
\* ends every column that is not null with a rule.
RECURSIVE show_columns(_, _, _)
show_columns(frame, columns, rule) ==
    IF columns = <<>> THEN Returned(<<>>)
    ELSE LET col == Head(columns)
             data_type == infer_data_type(frame.data[col])
             shown == IF isnull_all(frame.data[col]) THEN null_messages(col)
                      ELSE <<Markdown(data_type, <<col>>)>>
                           \o (IF data_type \in {"categorical", "boolean"}
                               THEN <<Item("top_most_frequent", "", <<col>>, <<>>, None),
                                      Item("bar_plot", "", <<col>>, <<>>, None)>>
                               ELSE <<Item("numeric_statistics", "", <<col>>, <<>>, None),
                                      Item("histogram", "", <<col>>, <<>>, None)>>)
                           \o rule
         IN  IF ambiguous_truth(frame, col) THEN Raise("ValueError", <<>>)
             ELSE Then(Returned(shown), show_columns(frame, Tail(columns), rule))

\* The static method univariate_analysis.
univariate_analysis(frame, columns) ==
    LET selected == IF ~IsNone(columns) THEN select_columns(frame, Val(columns)) ELSE frame
    IN  show_columns(selected, selected.columns, <<>>)

UnivariateAnalysis_show(self, frame) ==
    LET selected == IF ~IsNone(self.columns) THEN select_columns(frame, Val(self.columns))
                    ELSE frame
    IN  Then(Returned(<<Markdown(name(self), <<>>)>>),
             show_columns(selected, selected.columns, <<Markdown("---", <<>>)>>))

-----------------------------------------------------------------------------
(* UMAP.  The item "umap" stands for the embedding and its scatter plot: its *)
(* columns are those handed to the embedder.  interactive, n_neighbors,     *)
(* min_dist and metric pass from the constructor to plot_umap untouched and *)
(* are left out.                                                            *)

\* The first column of a list that is not numeric, None if every one is.
RECURSIVE first_not_numeric(_, _)
first_not_numeric(frame, columns) ==
    IF columns = <<>> THEN None
    ELSE IF ~is_numeric(frame.data[Head(columns)]) THEN Some(Head(columns))
    ELSE first_not_numeric(frame, Tail(columns))

UMAP(frame, verbosity, columns, color_col) ==
    LET numeric == SelectSeq(frame.columns, LAMBDA col : is_numeric(frame.data[col]))
        kept == IF IsNone(columns)
                THEN IF Len(numeric) = Len(frame.columns) THEN None ELSE Some(numeric)
                ELSE columns
    IN  IF ~IsNone(columns) /\ ~IsNone(first_not_numeric(frame, Val(columns)))
        THEN ConstructorRaised("ValueError")
        ELSE Constructed([Section("UMAP", verbosity, kept) EXCEPT !.color_col = color_col])

\* plot_umap without the check of the columns given.
plot_umap_unchecked(frame, columns, color_col, show_message) ==
    LET embedded == IF IsNone(columns)
                    THEN SelectSeq(frame.columns, LAMBDA col : is_numeric(frame.data[col]))
                    ELSE Val(columns)
    IN  Returned(<<Item("umap", "", embedded, <<>>, color_col)>>
                 \o (IF show_message
                     THEN <<Item("print", "UMAP requires proper setting of hyperparameters.",
                                 <<>>, <<>>, None)>>
                     ELSE <<>>))

plot_umap(frame, columns, color_col, show_message) ==
    IF ~IsNone(columns) /\ ~IsNone(first_not_numeric(frame, Val(columns)))
    THEN Raise("ValueError", <<>>)
    ELSE LET embedded == IF IsNone(columns)
                         THEN SelectSeq(frame.columns, LAMBDA col : is_numeric(frame.data[col]))
                         ELSE Val(columns)
         IN  Returned(<<Item("umap", "", embedded, <<>>, color_col)>>
                      \o (IF show_message
                          THEN <<Item("print", "UMAP requires proper setting of hyperparameters.",
                                      <<>>, <<>>, None)>>
                          ELSE <<>>))

UMAP_show(self, frame) ==
    Then(Returned(<<Markdown(name(self), <<>>)>>),
         plot_umap(frame, self.columns, self.color_col, TRUE))

-----------------------------------------------------------------------------
(* Autocorrelation.  lags and figsize pass to the plots untouched and are   *)
(* left out.                                                                *)

\* The decorator check_index_time_ascending lets the call through: the index
\* of df is a time index in ascending order.
check_index_time_ascending(frame) == frame.index_time_ascending

\* The loop of plot_acf: the heading and the plot of every column.
plot_acf_columns(columns, partial) ==
    Flatten([i \in 1..Len(columns) |->
                <<Markdown("###", <<columns[i]>>),
                  Item(IF partial THEN "plot_pacf" ELSE "plot_acf", "", <<columns[i]>>,
                       <<>>, None)>>])

\* plot_acf with each column checked when its turn to be plotted comes.
RECURSIVE plot_acf_checked_late(_, _, _)
plot_acf_checked_late(frame, columns, partial) ==
    IF ~check_index_time_ascending(frame) THEN Raise("ValueError", <<>>)
    ELSE IF IsNone(columns)
    THEN Returned(plot_acf_columns(
            SelectSeq(frame.columns, LAMBDA col : is_numeric(frame.data[col])), partial))
    ELSE IF Val(columns) = <<>> THEN Returned(<<>>)
    ELSE IF ~is_numeric(frame.data[Head(Val(columns))]) THEN Raise("ValueError", <<>>)
    ELSE Then(Returned(plot_acf_columns(<<Head(Val(columns))>>, partial)),
              plot_acf_checked_late(frame, Some(Tail(Val(columns))), partial))

plot_acf(frame, columns, partial) ==
    IF ~check_index_time_ascending(frame) THEN Raise("ValueError", <<>>)
    ELSE IF ~IsNone(columns) /\ ~IsNone(first_not_numeric(frame, Val(columns)))
    THEN Raise("ValueError", <<>>)
    ELSE Returned(plot_acf_columns(
            IF IsNone(columns)
            THEN SelectSeq(frame.columns, LAMBDA col : is_numeric(frame.data[col]))
            ELSE Val(columns), partial))

plot_pacf(frame, columns) ==
    IF ~check_index_time_ascending(frame) THEN Raise("ValueError", <<>>)
    ELSE plot_acf(frame, columns, TRUE)

autocorrelation(frame, columns) ==
    IF ~check_index_time_ascending(frame) THEN Raise("ValueError", <<>>)
    ELSE Then(plot_acf(frame, columns, FALSE),
              Then(Returned(<<Markdown("## Partial autocorrelation", <<>>)>>),
                   plot_pacf(frame, columns)))

\* Autocorrelation has no constructor of its own.
Autocorrelation(verbosity, columns) ==
    Constructed(Section("Autocorrelation", verbosity, columns))

\* "f(df=df" with ", columns=..." when self.columns is not None, and ")".
Autocorrelation_default_call(self, f) ==
    <<f, "(", "df=df">>
    \o (IF ~IsNone(self.columns)
        THEN <<",", "columns", "=">> \o repr_str_list(Val(self.columns))
        ELSE <<>>)
    \o <<")">>

\* add_cells with the two cells of verbosity 0 at every verbosity.
Autocorrelation_add_cells_one_call(self, cells0) ==
    cells0 \o <<new_markdown_cell(get_title(self, 2)),
                new_code_cell(Autocorrelation_default_call(self, "autocorrelation"))>>

Autocorrelation_add_cells(self, cells0) ==
    IF self.verbosity = 0
    THEN LET section_header == new_markdown_cell(get_title(self, 2))
             default_call == Autocorrelation_default_call(self, "autocorrelation")
         IN  cells0 \o <<section_header, new_code_cell(default_call)>>
    ELSE LET section_header_acf == new_markdown_cell(get_title(self, 2))
             default_call_acf == Autocorrelation_default_call(self, "plot_acf")
             section_header_pacf == new_markdown_cell(<<"##", "Partial autocorrelation">>)
             default_call_pacf == Autocorrelation_default_call(self, "plot_pacf")
             code_acf == IF self.verbosity = 1 THEN default_call_acf
                         ELSE get_code("plot_acf") \o <<"\n\n">> \o default_call_acf
             code_pacf == IF self.verbosity = 1 THEN default_call_pacf
                          ELSE get_code("plot_pacf") \o <<"\n\n">> \o default_call_pacf
         IN  cells0 \o <<section_header_acf, new_code_cell(code_acf),
                         section_header_pacf, new_code_cell(code_pacf)>>

Autocorrelation_show(self, frame) ==
    Then(Returned(<<Markdown(name(self), <<>>)>>), autocorrelation(frame, self.columns))

-----------------------------------------------------------------------------
(* The state machine.  A behaviour is one use of the library on a data      *)
(* frame df: a static function is called, or a section is constructed and   *)
(* then shown and exported.  call is the last call made, with its           *)
(* arguments; raised and displayed are its exception and its output; built  *)
(* holds the subsection objects a constructor built; cells is the list of   *)
(* cells of the exported notebook.                                          *)

Start == [op |-> "start"]

InitWith(frames) ==
    /\ df \in frames
    /\ section = NoSection
    /\ cells = <<>>
    /\ displayed = <<>>
    /\ raised = "none"
    /\ call = Start
    /\ built = <<>>

\* Nothing has been called or constructed yet.
Fresh == section = NoSection /\ call = Start

\* Lists of the columns of a frame.
ColumnLists(names) == Lists(names, MaxLen)

\* A few values of a column-list parameter.
ColumnsChoices == {None, Some(<<>>), Some(<<NameA>>), Some(<<NameB, NameA>>)}

\* The pairs that columns_pairs is built from.
PairChoices == {<<NameA, NameB>>, <<NameB, NameA>>, <<NameA, NameA>>}

PairLists == Lists(PairChoices, MaxPairs)

\* Values of table_threshold: negative, zero, and the numbers of unique
\* values of a column that is not null.
Thresholds == {-1, 0, 1, 2}

\* The frames and the arguments contingency_tables is called with: with
\* columns_pairs and a few values of the other parameters, and without
\* columns_pairs and every list of columns.
ContingencyFrames == Frames(<<NameA, NameB>>, {"categorical"}, ValueChoices)

ContingencyInputs ==
    {[columns |-> c, columns_x |-> x, columns_y |-> y, columns_pairs |-> Some(p),
      table_threshold |-> t] :
        c \in ColumnsChoices, x \in ColumnsChoices, y \in ColumnsChoices,
        p \in PairLists, t \in Thresholds}
    \cup
    {[columns |-> c, columns_x |-> x, columns_y |-> y, columns_pairs |-> None,
      table_threshold |-> t] :
        c \in Opt(ColumnLists({NameA, NameB})), x \in Opt(ColumnLists({NameA, NameB})),
        y \in Opt(ColumnLists({NameA, NameB})), t \in Thresholds}

(* ContingencyTable.contingency_tables(df, ...) *)
ContingencyTables ==
    /\ Fresh
    /\ \E a \in ContingencyInputs :
        /\ LET r == contingency_tables(df, a.columns, a.columns_x, a.columns_y,
                                       a.columns_pairs, a.table_threshold)
           IN  raised' = r.raised /\ displayed' = r.displayed
        /\ call' = [op |-> "contingency_tables"] @@ a
    /\ UNCHANGED <<df, section, cells, built>>

\* Values of the pair (columns_x, columns_y) of a constructor.
XYChoices ==
    {<<None, None>>, <<None, Some(<<NameA>>)>>, <<Some(<<NameA>>), None>>,
     <<Some(<<NameA>>), Some(<<NameB, NameA>>)>>, <<Some(<<>>), Some(<<>>)>>}

\* Values of color_col.
ColorChoices == {None, Some(NameA), Some(NameB)}

\* Values of subsections.
SubsectionsChoices ==
    {None, Some(<<>>), Some(<<"ContingencyTable", "CorrelationPlot">>),
     Some(<<"PairPlot", "ContingencyTable", "PairPlot">>)}

Verbosities == 0..2

\* The arguments BivariateAnalysis is constructed with: every selection of
\* columns at verbosity 0, and every combination of verbosities with a few
\* selections.
BivariateInputs ==
    {[subsections |-> s, verbosity |-> 0, columns |-> c, columns_x |-> xy[1],
      columns_y |-> xy[2], columns_pairs |-> p, verbosity_correlations |-> None,
      verbosity_pairplot |-> None, verbosity_contingency_table |-> None, color_col |-> k] :
        s \in SubsectionsChoices, c \in ColumnsChoices, xy \in XYChoices,
        p \in Opt(PairLists), k \in ColorChoices}
    \cup
    {[subsections |-> s, verbosity |-> v, columns |-> c, columns_x |-> None,
      columns_y |-> None, columns_pairs |-> None, verbosity_correlations |-> v1,
      verbosity_pairplot |-> v2, verbosity_contingency_table |-> v3, color_col |-> None] :
        s \in SubsectionsChoices, v \in Verbosities, c \in {None, Some(<<NameA>>)},
        v1 \in Opt(Verbosities), v2 \in Opt(Verbosities), v3 \in Opt(Verbosities)}

(* BivariateAnalysis(...) *)
NewBivariateAnalysis ==
    /\ Fresh
    /\ \E a \in BivariateInputs :
        /\ LET r == BivariateAnalysis(a.subsections, a.verbosity, a.columns, a.columns_x,
                                      a.columns_y, a.columns_pairs, a.verbosity_correlations,
                                      a.verbosity_pairplot, a.verbosity_contingency_table,
                                      a.color_col)
           IN  raised' = r.raised /\ section' = r.obj /\ built' = r.built
        /\ call' = [op |-> "BivariateAnalysis"] @@ a
    /\ displayed' = <<>>
    /\ UNCHANGED <<df, cells>>

SectionInputs ==
    {[verbosity |-> v, columns |-> c, columns_x |-> xy[1], columns_y |-> xy[2],
      columns_pairs |-> None, color_col |-> k] :
        v \in Verbosities, c \in ColumnsChoices, xy \in XYChoices, k \in ColorChoices}

(* CorrelationPlot(...) *)
NewCorrelationPlot ==
    /\ Fresh
    /\ \E a \in {i \in SectionInputs : i.color_col = None} :
        /\ LET r == CorrelationPlot(a.verbosity, a.columns, a.columns_x, a.columns_y)
           IN  /\ raised' = r.raised
               /\ section' = r.obj
               /\ built' = IF r.raised = "none" THEN <<r.obj>> ELSE <<>>
        /\ call' = [op |-> "CorrelationPlot"] @@ a
    /\ displayed' = <<>>
    /\ UNCHANGED <<df, cells>>

(* PairPlot(...) *)
NewPairPlot ==
    /\ Fresh
    /\ \E a \in SectionInputs :
        /\ LET r == PairPlot(a.verbosity, a.columns, a.columns_x, a.columns_y, a.color_col)
           IN  /\ raised' = r.raised
               /\ section' = r.obj
               /\ built' = IF r.raised = "none" THEN <<r.obj>> ELSE <<>>
        /\ call' = [op |-> "PairPlot"] @@ a
    /\ displayed' = <<>>
    /\ UNCHANGED <<df, cells>>

(* ContingencyTable(...) *)
NewContingencyTable ==
    /\ Fresh
    /\ \E a \in {i \in SectionInputs : i.color_col = None}, p \in {None, Some(<<<<NameB, NameA>>>>)} :
        /\ LET r == ContingencyTable(a.verbosity, a.columns, a.columns_x, a.columns_y, p)
           IN  /\ raised' = r.raised
               /\ section' = r.obj
               /\ built' = <<r.obj>>
        /\ call' = [op |-> "ContingencyTable"] @@ [a EXCEPT !.columns_pairs = p]
    /\ displayed' = <<>>
    /\ UNCHANGED <<df, cells>>

(* UnivariateAnalysis(df, ...) *)
NewUnivariateAnalysis ==
    /\ Fresh
    /\ \E v \in Verbosities, c \in Opt(ColumnLists({NameA, NameB})) :
        /\ LET r == UnivariateAnalysis(df, v, c)
           IN  /\ raised' = r.raised
               /\ section' = r.obj
               /\ built' = <<r.obj>>
        /\ call' = [op |-> "UnivariateAnalysis", verbosity |-> v, columns |-> c]
    /\ displayed' = <<>>
    /\ UNCHANGED <<df, cells>>

\* The static functions' lists of columns.
StaticInputs ==
    {[columns |-> c, columns_x |-> x, columns_y |-> y] :
        c \in Opt(ColumnLists({NameA, NameB})), x \in Opt(ColumnLists({NameA, NameB})),
        y \in Opt(ColumnLists({NameA, NameB}))}

(* CorrelationPlot.plot_correlation(df, corr_name, corr_func, ...) *)
PlotCorrelation ==
    /\ Fresh
    /\ \E a \in StaticInputs, corr_name \in {"pearson"} :
        /\ LET r == plot_correlation(df, corr_name, a.columns, a.columns_x, a.columns_y)
           IN  raised' = r.raised /\ displayed' = r.displayed
        /\ call' = [op |-> "plot_correlation", corr_name |-> corr_name] @@ a
    /\ UNCHANGED <<df, section, cells, built>>

(* PairPlot.plot_pairplot(df, ...) *)
PlotPairplot ==
    /\ Fresh
    /\ \E a \in StaticInputs, allow_categorical \in BOOLEAN, color_col \in {None, Some(NameA)} :
        /\ LET r == plot_pairplot(df, a.columns, a.columns_x, a.columns_y,
                                  allow_categorical, color_col)
           IN  raised' = r.raised /\ displayed' = r.displayed
        /\ call' = [op |-> "plot_pairplot", allow_categorical |-> allow_categorical,
                    color_col |-> color_col] @@ a
    /\ UNCHANGED <<df, section, cells, built>>

\* self.add_cells(cells), by the class of self: the exception raised, the
\* cells, the output displayed and the object afterwards.
section_add_cells(self, cells0) ==
    IF self.cls = "UnivariateAnalysis" THEN UnivariateAnalysis_add_cells(self, cells0)
    ELSE [raised |-> "none",
          cells |-> IF self.cls = "BivariateAnalysis"
                    THEN BivariateAnalysis_add_cells(self, cells0)
                    ELSE IF self.cls = "Autocorrelation"
                    THEN Autocorrelation_add_cells(self, cells0)
                    ELSE sub_add_cells(self, cells0),
          displayed |-> <<>>, self |-> self]

\* self.show(df), by the class of self.
section_show(self, frame) ==
    IF self.cls = "BivariateAnalysis" THEN BivariateAnalysis_show(self, frame)
    ELSE IF self.cls = "UnivariateAnalysis" THEN UnivariateAnalysis_show(self, frame)
    ELSE IF self.cls = "UMAP" THEN UMAP_show(self, frame)
    ELSE IF self.cls = "Autocorrelation" THEN Autocorrelation_show(self, frame)
    ELSE sub_show(self, frame)

(* section.add_cells(cells), cells a new list *)
AddCells ==
    /\ section # NoSection
    /\ cells = <<>>
    /\ LET r == section_add_cells(section, cells)
       IN  /\ cells' = r.cells
           /\ raised' = r.raised
           /\ displayed' = r.displayed
           /\ section' = r.self
    /\ call' = [op |-> "add_cells"]
    /\ UNCHANGED <<df, built>>

(* section.show(df) *)
Show ==
    /\ section # NoSection
    /\ LET r == section_show(section, df)
       IN  raised' = r.raised /\ displayed' = r.displayed
    /\ call' = [op |-> "show"]
    /\ UNCHANGED <<df, section, cells, built>>

\* The arguments of UMAP and of plot_umap.
UMAPInputs ==
    {[verbosity |-> v, columns |-> c, color_col |-> k] :
        v \in Verbosities, c \in Opt(ColumnLists({NameA, NameB})),
        k \in {None, Some(NameB)}}

(* UMAP(df, ...) *)
NewUMAP ==
    /\ Fresh
    /\ \E a \in UMAPInputs :
        /\ LET r == UMAP(df, a.verbosity, a.columns, a.color_col)
           IN  /\ raised' = r.raised
               /\ section' = r.obj
               /\ built' = <<r.obj>>
        /\ call' = [op |-> "UMAP"] @@ a
    /\ displayed' = <<>>
    /\ UNCHANGED <<df, cells>>

(* UMAP.plot_umap(df, ...) *)
PlotUmap ==
    /\ Fresh
    /\ \E a \in UMAPInputs, show_message \in BOOLEAN :
        /\ LET r == plot_umap(df, a.columns, a.color_col, show_message)
           IN  raised' = r.raised /\ displayed' = r.displayed
        /\ call' = [op |-> "plot_umap", show_message |-> show_message] @@ a
    /\ UNCHANGED <<df, section, cells, built>>

\* The arguments of Autocorrelation and of its static functions.
AutocorrelationInputs ==
    {[verbosity |-> v, columns |-> c] :
        v \in Verbosities, c \in Opt(ColumnLists({NameA, NameB}))}

(* Autocorrelation(...) *)
NewAutocorrelation ==
    /\ Fresh
    /\ \E a \in AutocorrelationInputs :
        /\ LET r == Autocorrelation(a.verbosity, a.columns)
           IN  /\ raised' = r.raised
               /\ section' = r.obj
               /\ built' = <<r.obj>>
        /\ call' = [op |-> "Autocorrelation"] @@ a
    /\ displayed' = <<>>
    /\ UNCHANGED <<df, cells>>

(* Autocorrelation.plot_acf(df, columns, partial=...) *)
PlotAcf ==
    /\ Fresh
    /\ \E c \in Opt(ColumnLists({NameA, NameB})), partial \in BOOLEAN :
        /\ LET r == plot_acf(df, c, partial)
           IN  raised' = r.raised /\ displayed' = r.displayed
        /\ call' = [op |-> "plot_acf", columns |-> c, partial |-> partial]
    /\ UNCHANGED <<df, section, cells, built>>

(* Autocorrelation.autocorrelation(df, columns) *)
CallAutocorrelation ==
    /\ Fresh
    /\ \E c \in Opt(ColumnLists({NameA, NameB})) :
        /\ LET r == autocorrelation(df, c)
           IN  raised' = r.raised /\ displayed' = r.displayed
        /\ call' = [op |-> "autocorrelation", columns |-> c]
    /\ UNCHANGED <<df, section, cells, built>>

\* The last statement of the source of a cell: what follows the last blank
\* line; the statements before it are function definitions.
RECURSIVE last_statement(_)
last_statement(source) ==
    IF "\n\n" \notin Range(source) THEN source
    ELSE last_statement(Tail(source))

\* Python's execution of a call statement of an exported notebook, with the
\* notebook's imports in scope.
exec_statement(frame, source) ==
    LET parsed == ParseCall(source)
        k == parsed.kwargs
    IN  IF ~parsed.ok THEN Raise("SyntaxError", <<>>)
        ELSE CASE parsed.func = "bivariate_analysis" ->
                    bivariate_analysis(frame, k.subsections, k.columns, k.columns_x,
                                       k.columns_y, k.columns_pairs, k.color_col)
               [] parsed.func = "plot_correlations" ->
                    plot_correlations(frame, k.columns, k.columns_x, k.columns_y,
                                      TRUE, TRUE, TRUE)
               [] parsed.func = "plot_pairplot" ->
                    plot_pairplot(frame, k.columns, k.columns_x, k.columns_y, FALSE,
                                  k.color_col)
               [] parsed.func = "contingency_tables" ->
                    contingency_tables(frame, k.columns, k.columns_x, k.columns_y,
                                       k.columns_pairs, DefaultTableThreshold)
               [] parsed.func = "univariate_analysis" ->
                    univariate_analysis(frame, k.columns)
               [] OTHER -> Raise("NameError", <<>>)

\* The functions whose calls exec_statement runs.
Callables ==
    {"bivariate_analysis", "plot_correlations", "plot_pairplot", "contingency_tables",
     "univariate_analysis"}

(* Running one code cell of the exported notebook on df: a cell that ends *)
(* with a call of one of the section functions.                           *)
RunCell ==
    /\ \E i \in 1..Len(cells) :
        /\ cells[i].cell_type = "code"
        /\ Head(last_statement(cells[i].source)) \in Callables
        /\ LET r == exec_statement(df, last_statement(cells[i].source))
           IN  raised' = r.raised /\ displayed' = r.displayed
        /\ call' = [op |-> "run_cell", cell |-> i]
    /\ UNCHANGED <<df, section, cells, built>>

\* The lines of a text.
RECURSIVE SplitLines(_)
SplitLines(text) ==
    IF "\n" \notin Range(text) THEN <<text>>
    ELSE LET i == CHOOSE j \in 1..Len(text) :
                    text[j] = "\n" /\ \A k \in 1..(j - 1) : text[k] # "\n"
         IN  <<SubSeq(text, 1, i - 1)>> \o SplitLines(SubSeq(text, i + 1, Len(text)))

\* The names Python binds when it runs the import strings: the alias of
\* `import m as a`, the module of `import m`, the name of `from m import n`,
\* and the target of an assignment.
bound_names(imports) ==
    LET statements == Flatten([i \in 1..Len(imports) |-> SplitLines(imports[i])])
        bound(st) == IF st[1] = "import" THEN {IF "as" \in Range(st) THEN st[Len(st)] ELSE st[2]}
                     ELSE IF st[1] = "from" THEN {st[Len(st)]}
                     ELSE IF Len(st) >= 2 /\ st[2] = "=" THEN {st[1]}
                     ELSE {}
    IN  UNION {bound(statements[i]) : i \in 1..Len(statements)}

\* The module aliases the function definitions of a cell refer to.
referenced_aliases(source) ==
    UNION {module_aliases(source[i + 1]) : i \in {j \in 1..(Len(source) - 1) : source[j] = "def"}}

(* Running the notebook exported from a ContingencyTable: the imports of   *)
(* required_imports, then the code cell.  A definition whose annotation or *)
(* default names an alias that is not bound, and a call of a name that is  *)
(* not bound, end in NameError.                                            *)
RunNotebook ==
    /\ section.cls = "ContingencyTable"
    /\ Len(cells) = 2
    /\ LET imports == ContingencyTable_required_imports(section)
           source == cells[2].source
           statement == last_statement(source)
           defined == {source[i + 1] : i \in {j \in 1..(Len(source) - 1) : source[j] = "def"}}
           r == IF ~(referenced_aliases(source) \subseteq bound_names(imports))
                THEN Raise("NameError", <<>>)
                ELSE IF Head(statement) \notin bound_names(imports) \cup defined
                THEN Raise("NameError", <<>>)
                ELSE exec_statement(df, statement)
       IN  /\ raised' = r.raised
           /\ displayed' = r.displayed
           /\ call' = [op |-> "run_notebook", imports |-> imports]
    /\ UNCHANGED <<df, section, cells, built>>

\* Frames whose columns differ in type.
TypedFrames == Frames(<<NameA, NameB>>, {"numeric", "categorical"}, {<<"u", "v">>})

\* Frames whose columns differ in type and in being null.
UnivariateFrames == Frames(<<NameA, NameB>>, Kinds, {<<NULL, NULL>>, <<"u", "v">>})

\* One frame: a numeric and a categorical column.
OneFrame ==
    {f \in TypedFrames : f.data[NameA].kind = "numeric" /\ f.data[NameB].kind = "categorical"}

\* Every constructor and static function, called once.
Init == InitWith(OneFrame)

Next ==
    \/ NewBivariateAnalysis
    \/ NewCorrelationPlot
    \/ NewPairPlot
    \/ NewContingencyTable
    \/ NewUnivariateAnalysis
    \/ PlotCorrelation
    \/ PlotPairplot
    \/ ContingencyTables

Spec == Init /\ [][Next]_vars

\* Frames with a numeric first column.
BivariateFrames == {f \in TypedFrames : f.data[NameA].kind = "numeric"}

\* A BivariateAnalysis section: constructed, shown, exported, its cells run.
InitBivariate == InitWith(BivariateFrames)

NextBivariate ==
    \/ NewBivariateAnalysis
    \/ AddCells
    \/ Show
    \/ RunCell

SpecBivariate == InitBivariate /\ [][NextBivariate]_vars

\* Frames of numeric, categorical and boolean columns.
PairPlotFrames ==
    Frames(<<NameA, NameB>>, {"numeric", "categorical", "boolean"}, {<<"u", "v">>})

\* A PairPlot section, and plot_pairplot.
InitPairPlot == InitWith(PairPlotFrames)

NextPairPlot ==
    \/ NewPairPlot
    \/ PlotPairplot
    \/ AddCells
    \/ Show
    \/ RunCell

SpecPairPlot == InitPairPlot /\ [][NextPairPlot]_vars

\* A CorrelationPlot section, and plot_correlation.
InitCorrelation == InitWith(TypedFrames)

NextCorrelation ==
    \/ NewCorrelationPlot
    \/ PlotCorrelation
    \/ AddCells
    \/ Show
    \/ RunCell

SpecCorrelation == InitCorrelation /\ [][NextCorrelation]_vars

\* A UnivariateAnalysis section.
InitUnivariate == InitWith(UnivariateFrames)

NextUnivariate ==
    \/ NewUnivariateAnalysis
    \/ AddCells
    \/ Show
    \/ RunCell

SpecUnivariate == InitUnivariate /\ [][NextUnivariate]_vars

\* contingency_tables.
InitContingency == InitWith(ContingencyFrames)

NextContingency == ContingencyTables

SpecContingency == InitContingency /\ [][NextContingency]_vars

\* A UMAP section, and plot_umap.
InitUMAP == InitWith(TypedFrames)

NextUMAP ==
    \/ NewUMAP
    \/ PlotUmap
    \/ Show

SpecUMAP == InitUMAP /\ [][NextUMAP]_vars

\* Frames with an index that is a time index in ascending order, or not.
AutocorrelationFrames ==
    {[columns |-> f.columns, data |-> f.data, index_time_ascending |-> b] :
        f \in TypedFrames, b \in BOOLEAN}

\* An Autocorrelation section, and its static functions.
InitAutocorrelation == InitWith(AutocorrelationFrames)

NextAutocorrelation ==
    \/ NewAutocorrelation
    \/ PlotAcf
    \/ CallAutocorrelation
    \/ AddCells
    \/ Show

SpecAutocorrelation == InitAutocorrelation /\ [][NextAutocorrelation]_vars

\* A ContingencyTable section: constructed, exported, the notebook run.
NextImports ==
    \/ NewContingencyTable
    \/ AddCells
    \/ RunNotebook

SpecImports == Init /\ [][NextImports]_vars

-----------------------------------------------------------------------------
(* Properties *)

\* The calls that check columns_x against columns_y.
ValidatingCalls ==
    {"BivariateAnalysis", "CorrelationPlot", "PairPlot", "plot_correlation", "plot_pairplot",
     "contingency_tables"}

\* C1: a constructor of BivariateAnalysis, CorrelationPlot or PairPlot, or a
\* call of plot_correlation, plot_pairplot or contingency_tables, given
\* exactly one of columns_x and columns_y raises ValueError, having built no
\* object and displayed nothing; given both or neither it raises nothing.
C1_ExactlyOneRaises ==
    call.op \in ValidatingCalls =>
        IF XorNone(call.columns_x, call.columns_y)
        THEN /\ raised = "ValueError"
             /\ built = <<>>
             /\ section = NoSection
             /\ displayed = <<>>
        ELSE raised = "none"

\* BivariateAnalysis was given columns_y alone, with columns_pairs, and raised.
C1_Witness ==
    /\ call.op = "BivariateAnalysis"
    /\ IsNone(call.columns_x) /\ ~IsNone(call.columns_y) /\ ~IsNone(call.columns_pairs)
    /\ raised = "ValueError"

\* The first and the second elements of a list of pairs.
Firsts(pairs) == [i \in 1..Len(pairs) |-> pairs[i][1]]

Seconds(pairs) == [i \in 1..Len(pairs) |-> pairs[i][2]]

\* C2: the CorrelationPlot and the PairPlot that BivariateAnalysis builds get
\* the first and the second elements of columns_pairs as columns_x and
\* columns_y when columns_pairs is given and columns, columns_x and columns_y
\* are not; in every other case they get the caller's columns_x and columns_y.
C2_PairsOnlyWhenAlone ==
    (call.op = "BivariateAnalysis" /\ raised = "none") =>
        /\ Len(built) = 3
        /\ built[1].cls = "CorrelationPlot" /\ built[2].cls = "PairPlot"
        /\ \A i \in 1..2 :
            IF /\ ~IsNone(call.columns_pairs)
               /\ IsNone(call.columns) /\ IsNone(call.columns_x) /\ IsNone(call.columns_y)
            THEN /\ built[i].columns_x = Some(Firsts(Val(call.columns_pairs)))
                 /\ built[i].columns_y = Some(Seconds(Val(call.columns_pairs)))
            ELSE /\ built[i].columns_x = call.columns_x
                 /\ built[i].columns_y = call.columns_y

\* columns_pairs of two pairs was given alone, and columns_pairs with columns.
C2_Witness ==
    /\ call.op = "BivariateAnalysis" /\ raised = "none"
    /\ call.columns_pairs = Some(<<<<NameA, NameB>>, <<NameA, NameA>>>>)
    /\ IsNone(call.columns) /\ IsNone(call.columns_x)
    /\ built[2].columns_x = Some(<<NameA, NameA>>)
    /\ built[2].columns_y = Some(<<NameB, NameA>>)

\* The cell of the aggregate call was run, of a BivariateAnalysis whose
\* verbosities are all 0.
RanAggregateCall ==
    /\ call.op = "run_cell"
    /\ section.cls = "BivariateAnalysis"
    /\ section.verbosity = 0
    /\ \A i \in 1..Len(built) : built[i].verbosity = 0

\* C3: run on df, the call that add_cells of a BivariateAnalysis of verbosity
\* 0 wrote shows what the subsections of that BivariateAnalysis show on df:
\* the same subsections in the same order, each with the same columns,
\* columns_x, columns_y, columns_pairs and color_col.
C3_CallShowsWhatSectionShows ==
    RanAggregateCall =>
        [raised |-> raised, displayed |-> displayed]
            = show_subsections(section.subsections, df)

\* C3, for a color_col that holds no quote character.
C3_CallShowsWhatSectionShows_NoQuote ==
    (RanAggregateCall /\ (IsNone(section.color_col) \/ SQ \notin Range(Val(section.color_col))))
        => [raised |-> raised, displayed |-> displayed]
            = show_subsections(section.subsections, df)

\* The call of a section with columns, columns_x, columns_y and columns_pairs
\* was run, and showed plots.
C3_NoQuote_Witness ==
    /\ RanAggregateCall
    /\ ~IsNone(section.columns) /\ ~IsNone(section.columns_x) /\ ~IsNone(section.columns_pairs)
    /\ section.color_col = Some(NameA)
    /\ Len(section.subsections) = 3
    /\ raised = "none"
    /\ Len(displayed) > 3

\* C4: the call that add_cells of a PairPlot writes is one call of
\* plot_pairplot: one opening parenthesis, one closing parenthesis, which
\* ends the text, and every argument between the two.
C4_OneCallOfPlotPairplot ==
    (call.op = "add_cells" /\ section.cls = "PairPlot") =>
        LET text == last_statement(cells[2].source)
        IN  /\ text[1] = "plot_pairplot"
            /\ text[2] = "("
            /\ Count(text, "(") = 1
            /\ Count(text, ")") = 1
            /\ text[Len(text)] = ")"

\* add_cells of a UnivariateAnalysis of verbosity 1 or 2 has returned.
AddedColumnCells ==
    /\ call.op = "add_cells"
    /\ section.cls = "UnivariateAnalysis"
    /\ section.verbosity \in {1, 2}
    /\ raised = "none"

\* The columns a UnivariateAnalysis selects: its columns, or those of df.
SelectedColumns == IF IsNone(section.columns) THEN df.columns ELSE Val(section.columns)

\* The cells add_cells appends before those of the columns: the header of
\* the section and, at verbosity 2, three cells of definitions.
CellsBeforeColumns == IF section.verbosity = 2 THEN 4 ELSE 1

\* cells[i] and cells[i + 1] are the header and the code of column col.
IsColumnCellPair(i, col) ==
    /\ cells[i].cell_type = "markdown"
    /\ SubSeq(cells[i].source, 1, 1 + Len(col)) = <<"##">> \o col
    /\ cells[i + 1].cell_type = "code"
    /\ SubSeq(cells[i + 1].source, 3, 2 + Len(df_col(col))) = df_col(col)

\* C5: at verbosity 1 or 2, add_cells of a UnivariateAnalysis appends, after
\* the cells that open the section, one header cell and one code cell for
\* every selected column, in the order of the columns: as many pairs of cells
\* as columns.
C5_OneCellPairPerColumn ==
    AddedColumnCells =>
        /\ Len(cells) = CellsBeforeColumns + 2 * Len(SelectedColumns)
        /\ \A k \in 1..Len(SelectedColumns) :
            IsColumnCellPair(CellsBeforeColumns + 2 * k - 1, SelectedColumns[k])

\* C5, for the selected columns that are not entirely null.
C5_OneCellPairPerColumnNotNull ==
    AddedColumnCells =>
        LET with_cells == SelectSeq(SelectedColumns, LAMBDA col : ~isnull_all(df.data[col]))
        IN  /\ Len(cells) = CellsBeforeColumns + 2 * Len(with_cells)
            /\ \A k \in 1..Len(with_cells) :
                IsColumnCellPair(CellsBeforeColumns + 2 * k - 1, with_cells[k])

\* contingency_tables was called.
CalledContingencyTables == call.op = "contingency_tables"

\* The pairs of columns contingency_table was called with, in order.
PairsShown == [i \in 1..Len(displayed) |-> <<displayed[i].x[1], displayed[i].y[1]>>]

ReturnedWithPairs ==
    CalledContingencyTables /\ ~IsNone(call.columns_pairs) /\ raised = "none"

CandidatePairs ==
    LET cols == IF IsNone(call.columns)
                THEN SelectSeq(df.columns, LAMBDA col : nunique(df.data[col]) > 1)
                ELSE Val(call.columns)
    IN  IF ~IsNone(call.columns_pairs) THEN Val(call.columns_pairs)
        ELSE IF ~IsNone(call.columns_x) THEN Product(Val(call.columns_x), Val(call.columns_y))
        ELSE Product(cols, cols)

\* The pairs shown are the pairs chosen from of two different columns,
\* neither entirely null, both within the threshold.
ShownWithin(within(_)) ==
    LET kept(pr) == /\ pr[1] # pr[2]
                    /\ ~isnull_all(df.data[pr[1]]) /\ ~isnull_all(df.data[pr[2]])
                    /\ within(pr[1]) /\ within(pr[2])
    IN  PairsShown = SelectSeq(CandidatePairs, kept)

\* C8: table_threshold is the largest number of unique values of a column
\* that is used, and a table_threshold of 0 or less leaves out no column for
\* its unique values.
C8_ThresholdIsMaximum ==
    (CalledContingencyTables /\ raised = "none") =>
        LET within(col) == \/ call.table_threshold <= 0
                           \/ nunique(df.data[col]) <= call.table_threshold
        IN  ShownWithin(within)

\* C8, for a table_threshold other than 0.
C8_ThresholdIsMaximum_NotZero ==
    (CalledContingencyTables /\ raised = "none" /\ call.table_threshold # 0) =>
        LET within(col) == \/ call.table_threshold <= 0
                           \/ nunique(df.data[col]) <= call.table_threshold
        IN  ShownWithin(within)

\* A threshold of 1 kept a pair of columns of one unique value.
C8_NotZero_Witness ==
    /\ CalledContingencyTables
    /\ call.table_threshold = 1
    /\ Len(displayed) > 0

\* C9: contingency_tables shows no table of a column that is entirely null,
\* wherever the pair came from; and with columns, columns_x, columns_y and
\* columns_pairs all None it chooses among the pairs of the columns of df of
\* more than one unique value, and of no other column.
C9_NoNullColumnShown ==
    CalledContingencyTables =>
        /\ \A i \in 1..Len(displayed) :
            /\ ~isnull_all(df.data[displayed[i].x[1]])
            /\ ~isnull_all(df.data[displayed[i].y[1]])
        /\ (/\ IsNone(call.columns) /\ IsNone(call.columns_x) /\ IsNone(call.columns_y)
            /\ IsNone(call.columns_pairs))
            => LET many == SelectSeq(df.columns, LAMBDA col : nunique(df.data[col]) > 1)
                   within(col) == \/ call.table_threshold < 0
                                  \/ nunique(df.data[col]) <= call.table_threshold
                   kept(pr) == pr[1] # pr[2] /\ within(pr[1]) /\ within(pr[2])
               IN  PairsShown = SelectSeq(Product(many, many), kept)

\* A pair with a column of nulls was given in columns_pairs, with a threshold
\* that leaves out no column, and no table was shown.
C9_Witness ==
    /\ CalledContingencyTables
    /\ call.columns_pairs = Some(<<<<NameA, NameB>>>>)
    /\ call.table_threshold = -1
    /\ ~isnull_all(df.data[NameA])
    /\ isnull_all(df.data[NameB])
    /\ raised = "none"
    /\ displayed = <<>>

\* The numeric members of a list of columns of df, in the order of the list.
NumericOf(l) == SelectSeq(l, LAMBDA col : df.data[col].kind = "numeric")

\* C10: the lists of columns plot_correlation gets from _get_columns_x_y are
\* the numeric members, in order, of columns_x and of columns_y when these
\* are given, whatever columns is; else both are the numeric members of
\* columns; else, columns being None too, the numeric columns of df.
C10_NumericInOrder ==
    (call.op = "plot_correlation" /\ raised = "none") =>
        LET heatmap == displayed[2]
            cols == IF IsNone(call.columns) THEN df.columns ELSE Val(call.columns)
        IN  IF ~IsNone(call.columns_x)
            THEN /\ heatmap.x = NumericOf(Val(call.columns_x))
                 /\ heatmap.y = NumericOf(Val(call.columns_y))
            ELSE heatmap.x = NumericOf(cols) /\ heatmap.y = NumericOf(cols)

\* columns_x and columns_y were given beside columns, and a column that is
\* not numeric was left out of both.
C10_Witness ==
    /\ call.op = "plot_correlation"
    /\ raised = "none"
    /\ df.data[NameA].kind = "numeric"
    /\ df.data[NameB].kind = "categorical"
    /\ call.columns = Some(<<NameB>>)
    /\ call.columns_x = Some(<<NameB, NameA>>)
    /\ call.columns_y = Some(<<NameA, NameB>>)
    /\ displayed[2].x = <<NameA>>
    /\ displayed[2].y = <<NameA>>

\* plot_pairplot has returned.
ReturnedPairplot == call.op = "plot_pairplot" /\ raised = "none"

\* The members of a list of columns of df that are neither categorical nor
\* boolean, in the order of the list.
PlottableOf(l) == SelectSeq(l, LAMBDA col : df.data[col].kind \notin {"categorical", "boolean"})

\* C11: without allow_categorical, the columns plot_pairplot plots are those
\* of columns_x and columns_y, else of columns, else of df, that are neither
\* categorical nor boolean; with allow_categorical the columns of df are
\* still filtered so when columns, columns_x and columns_y are all None, and
\* the columns given are plotted as given, in order.
C11_CategoricalOnlyWhenAllowedAndNamed ==
    ReturnedPairplot =>
        LET plot == displayed[1]
            given_x == IF ~IsNone(call.columns_x) THEN call.columns_x ELSE call.columns
            given_y == IF ~IsNone(call.columns_x) THEN call.columns_y ELSE call.columns
        IN  /\ Len(displayed) = 1
            /\ plot.kind = "pair_plot"
            /\ IF ~call.allow_categorical
               THEN /\ plot.x = PlottableOf(IF IsNone(given_x) THEN df.columns ELSE Val(given_x))
                    /\ plot.y = PlottableOf(IF IsNone(given_y) THEN df.columns ELSE Val(given_y))
               ELSE /\ plot.x = IF IsNone(given_x) THEN PlottableOf(df.columns) ELSE Val(given_x)
                    /\ plot.y = IF IsNone(given_y) THEN PlottableOf(df.columns) ELSE Val(given_y)

\* A boolean column named in columns_x was left out without
\* allow_categorical.
C11_Witness ==
    /\ ReturnedPairplot
    /\ ~call.allow_categorical
    /\ df.data[NameA].kind = "numeric"
    /\ df.data[NameB].kind = "boolean"
    /\ call.columns_x = Some(<<NameB, NameA>>)
    /\ call.columns_y = Some(<<NameB>>)
    /\ displayed[1].x = <<NameA>>
    /\ displayed[1].y = <<>>

\* The verbosity the claim gives a subsection.
OwnOrGlobal(own) == IF IsNone(own) THEN call.verbosity ELSE Val(own)

\* C12: BivariateAnalysis builds each subsection with its own verbosity
\* argument when that is not None, 0 included, and with the verbosity of the
\* section otherwise; the section keeps its verbosity.
C12_OwnVerbosityUnlessNone ==
    (call.op = "BivariateAnalysis" /\ raised = "none") =>
        /\ section.verbosity = call.verbosity
        /\ built[1].verbosity = OwnOrGlobal(call.verbosity_correlations)
        /\ built[2].verbosity = OwnOrGlobal(call.verbosity_pairplot)
        /\ built[3].verbosity = OwnOrGlobal(call.verbosity_contingency_table)
        /\ \A i \in 1..Len(section.subsections) :
            \E j \in 1..3 : section.subsections[i] = built[j]

\* A section of verbosity 2 was built with a pair plot of verbosity 0, a
\* contingency table of verbosity 1 and no verbosity of the correlations.
C12_Witness ==
    /\ call.op = "BivariateAnalysis"
    /\ raised = "none"
    /\ call.verbosity = 2
    /\ call.verbosity_correlations = None
    /\ call.verbosity_pairplot = Some(0)
    /\ call.verbosity_contingency_table = Some(1)
    /\ built[1].verbosity = 2
    /\ built[2].verbosity = 0
    /\ built[3].verbosity = 1

\* The embeddings among the output.
UmapItems(out) == SelectSeq(out, LAMBDA it : it.kind = "umap")

\* A list of columns with a column of df that is not numeric.
HasNotNumeric(l) == \E i \in 1..Len(l) : df.data[l[i]].kind # "numeric"

\* UMAP or plot_umap, called with columns, ends as the claim says: with a
\* column that is not numeric among them, in ValueError with no embedding
\* and no object; and plot_umap without columns embeds the numeric columns
\* of df.
C13_CallsOfUmap ==
    /\ (call.op \in {"UMAP", "plot_umap"} /\ ~IsNone(call.columns)
            /\ HasNotNumeric(Val(call.columns)))
        => raised = "ValueError" /\ displayed = <<>> /\ section = NoSection
    /\ (call.op = "UMAP" /\ IsNone(call.columns)) => raised = "none" /\ section.cls = "UMAP"
    /\ (call.op = "plot_umap" /\ IsNone(call.columns))
        => /\ raised = "none"
           /\ Len(UmapItems(displayed)) = 1
           /\ UmapItems(displayed)[1].x = NumericOf(df.columns)

\* show(df) right after UMAP(df, columns=None) embeds the numeric columns of
\* df.
C13_ShowAfterDefault ==
    (call.op = "UMAP" /\ IsNone(call.columns) /\ call'.op = "show") =>
        /\ raised' = "none"
        /\ Len(UmapItems(displayed')) = 1
        /\ UmapItems(displayed')[1].x = NumericOf(df.columns)

\* C13: UMAP(df, columns=None) followed by show(df) embeds exactly the
\* numeric columns of df, as plot_umap without columns does; UMAP and
\* plot_umap with a column that is not numeric among the columns given raise
\* ValueError before any embedding.
C13_OnlyNumericColumns == [](C13_CallsOfUmap) /\ [][C13_ShowAfterDefault]_vars

\* Of a frame of numeric columns the constructor kept no list, and show
\* embedded both columns.
C13_Witness ==
    /\ call.op = "show"
    /\ section.cls = "UMAP"
    /\ section.columns = None
    /\ raised = "none"
    /\ UmapItems(displayed)[1].x = <<NameA, NameB>>

\* The columns plotted, in the order of their plots.
PlottedColumns(out, kind) ==
    LET plots == SelectSeq(out, LAMBDA it : it.kind = kind)
    IN  [i \in 1..Len(plots) |-> plots[i].x[1]]

\* C14: on a frame with an ascending time index, plot_acf without columns
\* plots the numeric columns of df in the order of df; with a column that
\* is not numeric among the columns given it raises ValueError and has
\* displayed nothing, whatever numeric columns come before it; and it plots
\* the numeric columns given as given.
C14_PlotsOnlyNumericColumns ==
    (call.op = "plot_acf" /\ df.index_time_ascending) =>
        LET kind == IF call.partial THEN "plot_pacf" ELSE "plot_acf"
        IN  IF IsNone(call.columns)
            THEN /\ raised = "none"
                 /\ PlottedColumns(displayed, kind) = NumericOf(df.columns)
                 /\ Len(displayed) = 2 * Len(NumericOf(df.columns))
            ELSE IF HasNotNumeric(Val(call.columns))
            THEN raised = "ValueError" /\ displayed = <<>>
            ELSE /\ raised = "none"
                 /\ PlottedColumns(displayed, kind) = Val(call.columns)

\* A numeric column was listed before one that is not numeric, and nothing
\* was displayed.
C14_Witness ==
    /\ call.op = "plot_acf"
    /\ df.index_time_ascending
    /\ df.data[NameA].kind = "numeric"
    /\ df.data[NameB].kind = "categorical"
    /\ call.columns = Some(<<NameA, NameB>>)
    /\ raised = "ValueError"
    /\ displayed = <<>>

\* The functions of the analysis of one column.
ColumnFunctions == {"top_most_frequent", "bar_plot", "numeric_statistics", "histogram"}

\* The two functions the claim gives a column of df, with the column.
Dispatch(col) ==
    IF df.data[col].kind \in {"categorical", "boolean"}
    THEN <<<<"top_most_frequent", col>>, <<"bar_plot", col>>>>
    ELSE <<<<"numeric_statistics", col>>, <<"histogram", col>>>>

\* The functions of every selected column that is not entirely null, in the
\* order of the selection.
DispatchOfSelection ==
    LET not_null == SelectSeq(SelectedColumns, LAMBDA col : ~isnull_all(df.data[col]))
    IN  Flatten([k \in 1..Len(not_null) |-> Dispatch(not_null[k])])

\* The functions called while showing, each with its column, in order.
FunctionsShown ==
    LET shown == SelectSeq(displayed, LAMBDA it : it.kind \in ColumnFunctions)
    IN  [i \in 1..Len(shown) |-> <<shown[i].kind, shown[i].x[1]>>]

\* The functions the cells of the columns call, each with the column of the
\* header of its cell, in order.
FunctionsInCells ==
    LET pairs == (Len(cells) - CellsBeforeColumns) \div 2
        header(k) == cells[CellsBeforeColumns + 2 * k - 1].source
        code(k) == cells[CellsBeforeColumns + 2 * k].source
        column(k) == SubSeq(header(k), 2, Len(header(k)) - 2)
        called(k) == SelectSeq(code(k), LAMBDA t : t \in ColumnFunctions)
    IN  Flatten([k \in 1..pairs |-> [j \in 1..Len(called(k)) |-> <<called(k)[j], column(k)>>]])

\* C15: show, univariate_analysis (the call of the cell of verbosity 0) and
\* the cells of add_cells at verbosity 1 and 2 give every selected column
\* that is not entirely null the same two functions, in the order of the
\* selection: top_most_frequent and bar_plot for a categorical or boolean
\* column, numeric_statistics and histogram for any other.
C15_SameDispatchInEveryPath ==
    (section.cls = "UnivariateAnalysis" /\ raised = "none") =>
        /\ call.op \in {"show", "run_cell"} => FunctionsShown = DispatchOfSelection
        /\ AddedColumnCells =>
            /\ FunctionsInCells = DispatchOfSelection
            /\ \A k \in 1..((Len(cells) - CellsBeforeColumns) \div 2) :
                 \E col \in Range(SelectedColumns) :
                    IsColumnCellPair(CellsBeforeColumns + 2 * k - 1, col)

\* The cells of verbosity 2 call numeric_statistics and histogram for a
\* datetime column and top_most_frequent and bar_plot for a boolean one.
C15_Witness ==
    /\ AddedColumnCells
    /\ section.verbosity = 2
    /\ section.columns = Some(<<NameB, NameA>>)
    /\ df.data[NameB].kind = "datetime"
    /\ df.data[NameA].kind = "boolean"
    /\ FunctionsInCells = <<<<"numeric_statistics", NameB>>, <<"histogram", NameB>>,
                            <<"top_most_frequent", NameA>>, <<"bar_plot", NameA>>>>

\* The plots and the heading between them, among the output: what is left
\* when the headings of the columns are taken out.
PlotsAndHeading ==
    SelectSeq(displayed,
              LAMBDA it : \/ it.kind \in {"plot_acf", "plot_pacf"}
                          \/ it = Markdown("## Partial autocorrelation", <<>>))

\* The call that ends a code cell, read as Python reads it.
CallOfCell(i) == ParseCall(last_statement(cells[i].source))

\* cells[i] is a code cell that ends with the call f(df=df), with columns=
\* exactly when the section has columns, and then its columns.
IsCallCell(i, f) ==
    /\ cells[i].cell_type = "code"
    /\ CallOfCell(i).ok
    /\ CallOfCell(i).func = f
    /\ CallOfCell(i).kwargs = [NoKwargs EXCEPT !.columns = section.columns]
    /\ ("columns" \in Range(cells[i].source)) = ~IsNone(section.columns)

\* C16: autocorrelation shows the ACF plot of every column, then the heading
\* of the partial autocorrelation, then the PACF plot of every column; and
\* add_cells appends the title and one call of autocorrelation at verbosity
\* 0, and at verbosity 1 and 2 the title, the call of plot_acf, the heading
\* of the partial autocorrelation and the call of plot_pacf, every call with
\* columns= exactly when the section has columns.
C16_AcfThenPacf ==
    /\ (call.op = "autocorrelation" /\ raised = "none") =>
        LET n == (Len(PlotsAndHeading) - 1) \div 2
            columns == IF IsNone(call.columns) THEN NumericOf(df.columns)
                       ELSE Val(call.columns)
        IN  /\ Len(PlotsAndHeading) = 2 * Len(columns) + 1
            /\ \A i \in 1..n :
                /\ PlotsAndHeading[i].kind = "plot_acf"
                /\ PlotsAndHeading[i].x = <<columns[i]>>
                /\ PlotsAndHeading[n + 1 + i].kind = "plot_pacf"
                /\ PlotsAndHeading[n + 1 + i].x = <<columns[i]>>
            /\ PlotsAndHeading[n + 1] = Markdown("## Partial autocorrelation", <<>>)
    /\ (call.op = "add_cells" /\ section.cls = "Autocorrelation") =>
        LET title == [cell_type |-> "markdown", source |-> <<"##", "Autocorrelation">>]
            partial == [cell_type |-> "markdown",
                        source |-> <<"##", "Partial autocorrelation">>]
        IN  IF section.verbosity = 0
            THEN /\ Len(cells) = 2
                 /\ cells[1] = title
                 /\ IsCallCell(2, "autocorrelation")
            ELSE /\ Len(cells) = 4
                 /\ cells[1] = title
                 /\ IsCallCell(2, "plot_acf")
                 /\ cells[3] = partial
                 /\ IsCallCell(4, "plot_pacf")

\* add_cells of a section of verbosity 2 with columns has appended its four
\* cells.
C16_Witness ==
    /\ call.op = "add_cells"
    /\ section.cls = "Autocorrelation"
    /\ section.verbosity = 2
    /\ section.columns = Some(<<NameB, NameA>>)
    /\ Len(cells) = 4
    /\ CallOfCell(4).func = "plot_pacf"
    /\ CallOfCell(4).kwargs.columns = Some(<<NameB, NameA>>)

\* The notebook of a ContingencyTable was run.
RanNotebook == call.op = "run_notebook" /\ section.cls = "ContingencyTable"

\* C17: at verbosity 2 the imports of required_imports bind every module
\* alias the definitions of the cell refer to, and the cell runs with those
\* imports alone.
C17_ImportsBindEveryAlias ==
    (RanNotebook /\ section.verbosity = 2) =>
        /\ referenced_aliases(cells[2].source) \subseteq bound_names(call.imports)
        /\ raised # "NameError"

\* C17, at verbosity 0 and 1: the import binds the function the cell calls.
C17_ImportsBindTheCall ==
    (RanNotebook /\ section.verbosity <= 1) => raised # "NameError"

\* The call of a notebook of verbosity 1 has shown a table.
C17_BindTheCall_Witness ==
    /\ RanNotebook
    /\ section.verbosity = 1
    /\ raised = "none"
    /\ Len(displayed) > 0

====
